---- MODULE Spec2Model ----
(***************************************************************************)
(* A model of app.js: a command-line retrieval-augmented chatbot.  At      *)
(* startup the program checks its configuration, probes the generation     *)
(* provider, reads text.txt, cuts it into chunks, embeds every chunk and   *)
(* upserts the points into a vector collection; then it answers lines of   *)
(* input, one asynchronous handler per line.                               *)
(*                                                                         *)
(* Strings are sequences of one-character strings.  Every await of the     *)
(* program is a point at which the model's actions may interleave.         *)
(***************************************************************************)
EXTENDS Integers, Sequences, FiniteSets, TLC

VARIABLES
    env,        \* process.env: which of the four configuration values are set
    pc,         \* where main() stands
    exitCode,   \* NoExit while the process runs, else the process's exit code
    rl,         \* the readline interface: "none", "open" or "closed"
    text,       \* main's `text`
    chunks,     \* main's `chunks`
    ids,        \* main's `ids`
    ck,         \* the running call of chunkText: its text, size, i, chunks
    em,         \* the running calls of embedWithGemini, one per caller
    io,         \* the requests issued so far (network calls and the file
                \* read), per caller, in order
    out,        \* what was written to the console so far, per caller, in order
    turn,       \* the line handlers: one record per line received
    nlines,     \* how many lines the interface has emitted
    prompts,    \* how many times rl.prompt() was called
    resp,       \* the responses each caller's awaits resumed with, in order
    store,      \* the points of the Qdrant collection; it outlives the process
    run,        \* 1 in the program's first execution, 2 in the one after it
    prev        \* what the first execution read, asked, was answered and stored

vars == <<env, pc, exitCode, rl, text, chunks, ids, ck, em, io, out, turn,
          nlines, prompts, resp, store, run, prev>>

-----------------------------------------------------------------------------
(* Bounds of the model. *)

\* lines of input the interface emits in a session
MaxLines == 2
\* the longest document read from text.txt is MaxExtra characters longer
\* than two full chunks
MaxExtra == 1
\* the longest text and the largest size given to chunkText on its own
MaxTextLen == 4
MaxSize == 3
\* iterations of chunkText's loop that are followed
MaxIter == 5

(* Constants of the program. *)
DefaultChunkSize == 500
DefaultDim == 768
DefaultTopK == 3
Conflict == 409

\* exitCode while the process has not exited
NoExit == -1
\* the caller that is main(); the line handlers are callers 1, 2, ...
Main == 0

-----------------------------------------------------------------------------
(* Strings. *)

Min(a, b) == IF a < b THEN a ELSE b
Max(a, b) == IF a > b THEN a ELSE b

\* String.prototype.slice(start, end): a negative index counts from the end,
\* both are clamped to [0, length], and an empty range gives "".
Slice(s, start, end) ==
    LET n == Len(s)
        from == IF start < 0 THEN Max(n + start, 0) ELSE Min(start, n)
        to == IF end < 0 THEN Max(n + end, 0) ELSE Min(end, n)
    IN  IF from >= to THEN <<>> ELSE SubSeq(s, from + 1, to)

IsSpace(c) == c \in {" ", "\t", "\n", "\r"}

RECURSIVE TrimStart(_)
TrimStart(s) ==
    IF s # <<>> /\ IsSpace(Head(s)) THEN TrimStart(Tail(s)) ELSE s

RECURSIVE TrimEnd(_)
TrimEnd(s) ==
    IF s # <<>> /\ IsSpace(s[Len(s)]) THEN TrimEnd(SubSeq(s, 1, Len(s) - 1))
    ELSE s

\* no trimming at all
NoTrim(s) == s

\* String.prototype.trim()
Trim(s) == TrimEnd(TrimStart(s))

LowerOf(c) ==
    CASE c = "E" -> "e"
      [] c = "X" -> "x"
      [] c = "I" -> "i"
      [] c = "T" -> "t"
      [] c = "Q" -> "q"
      [] OTHER -> c

\* String.prototype.toLowerCase()
ToLowerCase(s) == [k \in 1..Len(s) |-> LowerOf(s[k])]

RECURSIVE Concat(_)
Concat(ss) == IF ss = <<>> THEN <<>> ELSE Head(ss) \o Concat(Tail(ss))

RECURSIVE Join(_, _)
\* Array.prototype.join(sep)
Join(ss, sep) ==
    IF ss = <<>> THEN <<>>
    ELSE IF Len(ss) = 1 THEN ss[1]
    ELSE ss[1] \o sep \o Join(Tail(ss), sep)

\* the word of line 198
ExitWord == <<"e", "x", "i", "t">>

-----------------------------------------------------------------------------
(* chunkText(text, size): lines 21-27. *)

ChunkCall(t, size) == [text |-> t, size |-> size, i |-> 0, chunks |-> <<>>,
                       pc |-> "loop"]

NoChunkCall == [text |-> <<>>, size |-> 0, i |-> 0, chunks |-> <<>>,
                pc |-> "none"]

\* a slice whose end forgets the offset i
ChunkSliceFromStart(c) == Slice(c.text, c.i, c.size)

\* the chunk one iteration pushes
ChunkSlice(c) == Slice(c.text, c.i, c.i + c.size)

\* the loop's increment, i += size
ChunkAdvance(c) == c.i + c.size

\* one iteration of the for loop: i < text.length, push, i += size
ChunkLoop ==
    /\ exitCode = NoExit
    /\ ck.pc = "loop"
    /\ ck.i < Len(ck.text)
    /\ Len(ck.chunks) < MaxIter
    /\ ck' = [ck EXCEPT !.chunks = Append(@, ChunkSlice(ck)),
                        !.i = ChunkAdvance(ck)]
    /\ UNCHANGED <<store, run, prev>>
    /\ UNCHANGED <<env, pc, exitCode, rl, text, chunks, ids, em, io, out,
                   turn, nlines, prompts, resp>>

\* the loop's exit and the return of chunks
ChunkReturn ==
    /\ exitCode = NoExit
    /\ ck.pc = "loop"
    /\ ~(ck.i < Len(ck.text))
    /\ ck' = [ck EXCEPT !.pc = "returned"]
    /\ UNCHANGED <<store, run, prev>>
    /\ UNCHANGED <<env, pc, exitCode, rl, text, chunks, ids, em, io, out,
                   turn, nlines, prompts, resp>>

-----------------------------------------------------------------------------
(* The world outside the process: the document, and what the providers may *)
(* answer.  A response is either a reply with data or a failure carrying   *)
(* the HTTP status (0 when no reply came: timeout, network error) and the  *)
(* error's message.                                                        *)

ConfigKeys == {"GEMINI_API_KEY", "QDRANT_API_KEY", "QDRANT_HOST",
               "COLLECTION_NAME"}

CharAt(k) == IF k % 3 = 1 THEN "a" ELSE IF k % 3 = 2 THEN "b" ELSE "c"
DocOfLen(n) == [k \in 1..n |-> CharAt(k)]
DocLens == {0, 1, DefaultChunkSize, DefaultChunkSize + MaxExtra,
            2 * DefaultChunkSize, 2 * DefaultChunkSize + MaxExtra}
Docs == {DocOfLen(n) : n \in DocLens}

Vectors == {<<1, 0>>, <<0, 1>>}

Reply(data) == [kind |-> "reply", status |-> 200, message |-> "", data |-> data]
Failure(status, message) ==
    [kind |-> "failure", status |-> status, message |-> message,
     data |-> [has |-> FALSE, value |-> <<>>]]
Present(v) == [has |-> TRUE, value |-> v]
Absent == [has |-> FALSE, value |-> <<>>]

TimedOut == Failure(0, "timeout exceeded")
NetworkError == Failure(0, "Network Error")
ServerError == Failure(500, "Request failed with status code 500")
AlreadyExists == Failure(Conflict, "Request failed with status code 409")

LivenessResponses == {Reply(Absent), NetworkError}
ReadFileResults == {Reply(Present(d)) : d \in Docs}
                       \cup {Failure(0, "ENOENT: no such file or directory")}
CreateResponses == {Reply(Absent), AlreadyExists, ServerError, TimedOut}
\* data.embedding.values is present, or the reply lacks it
EmbedResponses == {Reply(Present(v)) : v \in Vectors}
                      \cup {Reply(Absent), TimedOut}
UpsertResponses == {Reply(Absent), TimedOut}

\* the points of a search result: payload.text present, or absent
Item(t) == [has |-> TRUE, text |-> t]
NoPayload == [has |-> FALSE, text |-> <<>>]
Payload1 == <<"a", "b">>
Payload2 == <<"c">>
ResultLists == {<<>>, <<Item(Payload2), NoPayload, Item(Payload1)>>,
                <<Item(Payload1), Item(<<>>), Item(Payload2)>>}
\* data.result is present, or the reply lacks it
SearchResponses == {Reply(Present(items)) : items \in ResultLists}
                       \cup {Reply(Absent), NetworkError}
\* candidates[0].content.parts[0].text is present (possibly ""), or absent
GenerateResponses == {Reply(Present("A1")), Reply(Present("")),
                      Reply(Absent), TimedOut}

\* what the collection may hold before the program's first execution
StalePoint(i) == [id |-> i, vector |-> <<0, 1>>, text |-> <<"z">>]
InitialStores == {{}, {StalePoint(1), StalePoint(9)}}

\* the lines the user may enter
InputLines == {<<>>, <<" ", "\t">>, <<" ", "Q", " ">>,
               <<"e", "x", "i", "t">>, <<" ", "E", "x", "I", "T", "\t">>,
               <<"e", "x", "i", "t", "s">>}

-----------------------------------------------------------------------------
(* Requests and console output. *)

\* the timeout option of each axios call, in milliseconds; axios's default,
\* used where the call passes none, is 0: the request is never abandoned
NoTimeout == 0
EmbedTimeout == 30000
CreateTimeout == 10000
UpsertTimeout == 30000
GenerateTimeout == 30000

Request(op) == [op |-> op, text |-> <<>>, vector |-> <<>>, points |-> <<>>,
                limit |-> 0, timeout |-> NoTimeout]
ListModelsReq == Request("listModels")
ReadFileReq == Request("readFile")
CreateReq(dim) == [Request("createCollection") EXCEPT !.limit = dim,
                                                       !.timeout = CreateTimeout]
EmbedReq(t) == [Request("embed") EXCEPT !.text = t, !.timeout = EmbedTimeout]
UpsertReq(points) == [Request("upsert") EXCEPT !.points = points,
                                               !.timeout = UpsertTimeout]
SearchReq(v, topK) == [Request("search") EXCEPT !.vector = v, !.limit = topK]
GenerateReq(prompt) == [Request("generate") EXCEPT !.text = prompt,
                                                   !.timeout = GenerateTimeout]

Last(q) == q[Len(q)]

Issue(c, req) == [io EXCEPT ![c] = Append(@, req)]

\* caller c's pending await resumes with response r
Receive(c, r) == [resp EXCEPT ![c] = Append(@, r)]

\* a client that resolves whatever comes back
NeverRejected(r) == FALSE

\* axios rejects the promise: no reply, or a status outside 2xx
Rejected(r) == r.kind = "failure"

Line(s, a) == [s |-> s, a |-> a, n |-> 0]
Count(s, n) == [s |-> s, a |-> "", n |-> n]
Write(c, lines) == [out EXCEPT ![c] = @ \o lines]

Callers == 0..MaxLines
Turns == 1..MaxLines

-----------------------------------------------------------------------------
(* embedWithGemini(texts): lines 30-58.  A call is a frame: the texts, the  *)
(* position k of the text whose request is awaited, the embeddings pushed   *)
(* so far, and whether the call awaits, has returned or has thrown.         *)

NoEmbedCall == [texts |-> <<>>, k |-> 0, embeddings |-> <<>>, st |-> "none",
                err |-> ""]

\* entry: the loop's first request, or an immediate return for no texts
EmbedCall(texts) ==
    [texts |-> texts, k |-> 1, embeddings |-> <<>>,
     st |-> IF texts = <<>> THEN "returned" ELSE "await", err |-> ""]

\* unshift in place of push
EmbedUnshift(embeddings, values) == <<values>> \o embeddings

\* embeddings.push(res.data.embedding.values)
EmbedPush(embeddings, values) == Append(embeddings, values)

\* the text the loop embeds at position k
EmbedText(f) == f.texts[f.k]

\* a loop that asks again for a text whose request failed
EmbedResumeRetry(f, r) ==
    IF Rejected(r) \/ ~r.data.has
    THEN f
    ELSE IF f.k < Len(f.texts)
    THEN [f EXCEPT !.embeddings = EmbedPush(@, r.data.value), !.k = @ + 1]
    ELSE [f EXCEPT !.embeddings = EmbedPush(@, r.data.value),
                   !.st = "returned"]

\* the await of axios.post resumes with response r
EmbedResume(f, r) ==
    IF Rejected(r)
    THEN [f EXCEPT !.st = "thrown", !.err = r.message]
    ELSE IF ~r.data.has
    THEN [f EXCEPT !.st = "thrown", !.err = "Invalid response from Gemini API"]
    ELSE IF f.k < Len(f.texts)
    THEN [f EXCEPT !.embeddings = EmbedPush(@, r.data.value), !.k = @ + 1]
    ELSE [f EXCEPT !.embeddings = EmbedPush(@, r.data.value),
                   !.st = "returned"]

\* the requests a resumed call issues next: the next text's, or none
EmbedNext(f) == IF f.st = "await" THEN <<EmbedReq(EmbedText(f))>> ELSE <<>>

\* the catch block's console.error
EmbedErrorLog(f) == <<Line("Error in embedWithGemini:", f.err)>>

-----------------------------------------------------------------------------
(* upsertToQdrant's points: lines 93-97. *)

Points(is, texts, embeddings) ==
    [k \in 1..Len(is) |->
        [id |-> is[k], vector |-> embeddings[k], text |-> texts[k]]]

\* ids that count from zero
IdsFromZero(cs) == [k \in 1..Len(cs) |-> k - 1]

\* ids that continue after the points already stored
IdsAfterStore(cs) == [k \in 1..Len(cs) |-> Cardinality(store) + k]

\* ids = chunks.map((_, i) => i + 1): line 241
IdsOf(cs) == [k \in 1..Len(cs) |-> k]

-----------------------------------------------------------------------------
(* The module's top level and main(): lines 8-18 and 231-256. *)

\* an exit that leaves the process running
ExitIgnored(code) == exitCode' = NoExit

\* process.exit(code), or the runtime ending the process on an uncaught
\* error or an unhandled rejection (code 1)
Exit(code) == exitCode' = code

\* the catch block of main: console.error("Fatal error:", ...), exit(1)
Fatal(message) == <<Line("Fatal error:", message)>>

\* a check that looks at the Gemini key only
ConfigMissingGeminiOnly == ~env["GEMINI_API_KEY"]

\* line 16: a value that is undefined or empty is missing
ConfigMissing == \E k \in ConfigKeys : ~env[k]

\* lines 8-18 and the call main() with its first await
ConfigCheck ==
    /\ exitCode = NoExit
    /\ pc = "config"
    /\ IF ConfigMissing
       THEN /\ out' = Write(Main, <<Line("Uncaught Error:",
                                "Missing required environment variables")>>)
            /\ Exit(1)
            /\ UNCHANGED <<pc, io>>
       ELSE /\ out' = Write(Main, <<Line("Testing Gemini API connection...",
                                         "")>>)
            /\ io' = Issue(Main, ListModelsReq)
            /\ pc' = "liveness"
            /\ UNCHANGED exitCode
    /\ UNCHANGED <<store, run, prev>>
    /\ UNCHANGED <<env, rl, text, chunks, ids, ck, em, turn, nlines, prompts, resp>>

\* lines 232-239: the liveness check returns; on failure main rejects with a
\* new Error outside the second try, an unhandled rejection
LivenessDone ==
    /\ exitCode = NoExit
    /\ pc = "liveness"
    /\ \E r \in LivenessResponses :
        /\ resp' = Receive(Main, r)
        /\ IF Rejected(r)
           THEN /\ out' = Write(Main, <<Line("Unhandled rejection:",
                                    "Gemini API connection failed: "
                                        \o r.message)>>)
                /\ Exit(1)
                /\ UNCHANGED <<pc, io>>
           ELSE /\ io' = Issue(Main, ReadFileReq)
                /\ pc' = "readFile"
                /\ UNCHANGED <<exitCode, out>>
    /\ UNCHANGED <<store, run, prev>>
    /\ UNCHANGED <<env, rl, text, chunks, ids, ck, em, turn, nlines, prompts>>

\* lines 239-240: the file is read and chunkText(text, 500) is entered
ReadFileDone ==
    /\ exitCode = NoExit
    /\ pc = "readFile"
    /\ \E r \in ReadFileResults :
        /\ resp' = Receive(Main, r)
        /\ IF Rejected(r)
           THEN /\ out' = Write(Main, Fatal(r.message))
                /\ Exit(1)
                /\ UNCHANGED <<pc, text, ck>>
           ELSE /\ text' = r.data.value
                /\ ck' = ChunkCall(r.data.value, DefaultChunkSize)
                /\ pc' = "chunk"
                /\ UNCHANGED <<exitCode, out>>
    /\ UNCHANGED <<store, run, prev>>
    /\ UNCHANGED <<env, rl, chunks, ids, em, io, turn, nlines, prompts>>

\* lines 240-245: chunkText has returned; ids, the log line, and
\* createCollection's request
Chunked ==
    /\ exitCode = NoExit
    /\ pc = "chunk"
    /\ ck.pc = "returned"
    /\ chunks' = ck.chunks
    /\ ids' = IdsOf(ck.chunks)
    /\ ck' = NoChunkCall
    /\ out' = Write(Main, <<Count("Processing chunks", Len(ck.chunks))>>)
    /\ io' = Issue(Main, CreateReq(DefaultDim))
    /\ pc' = "createCollection"
    /\ UNCHANGED <<store, run, prev>>
    /\ UNCHANGED <<env, exitCode, rl, text, em, turn, nlines, prompts, resp>>

\* what main does once embedWithGemini(chunks) has returned: line 247
UpsertCall(f) == <<UpsertReq(Points(ids, chunks, f.embeddings))>>

\* a catch block that swallows every failure
AnyFailureIsConflict(r) == Rejected(r)

\* a catch block without the status test
IsConflictNever(r) == FALSE

\* line 81: error.response?.status === 409
IsConflict(r) == Rejected(r) /\ r.status = Conflict

\* the collection exists once a run has indexed into it, or holds points
CollectionExists == run = 2 \/ store # {}

\* PUT .../collections/<name> (lines 63-78) creates only what does not exist
CreateOutcomes ==
    IF CollectionExists THEN CreateResponses \ {Reply(Absent)}
    ELSE CreateResponses

\* createCollection (lines 61-88) returns or throws; on return main calls
\* embedWithGemini(chunks): line 246
CreateDone ==
    /\ exitCode = NoExit
    /\ pc = "createCollection"
    /\ \E r \in CreateOutcomes :
        /\ resp' = Receive(Main, r)
        /\ IF Rejected(r) /\ ~IsConflict(r)
           THEN /\ out' = Write(Main, <<Line("Error creating collection:",
                                             r.message)>> \o Fatal(r.message))
                /\ Exit(1)
                /\ UNCHANGED <<pc, em, io>>
           ELSE LET f == EmbedCall(chunks) IN
                /\ out' = Write(Main,
                       IF Rejected(r)
                       THEN <<Line("Collection already exists", "")>>
                       ELSE <<Line("Collection created or already exists.", "")>>)
                /\ em' = [em EXCEPT ![Main] = f]
                /\ io' = [io EXCEPT ![Main] =
                       @ \o (IF f.st = "returned" THEN UpsertCall(f)
                             ELSE EmbedNext(f))]
                /\ pc' = IF f.st = "returned" THEN "upsert" ELSE "embed"
                /\ UNCHANGED exitCode
    /\ UNCHANGED <<store, run, prev>>
    /\ UNCHANGED <<env, rl, text, chunks, ids, ck, turn, nlines, prompts>>

\* one embedding response of the startup batch arrives: lines 35-56, 246-247
EmbedDone ==
    /\ exitCode = NoExit
    /\ pc = "embed"
    /\ \E r \in EmbedResponses :
        /\ resp' = Receive(Main, r)
        /\ LET f == EmbedResume(em[Main], r) IN
           /\ em' = [em EXCEPT ![Main] = f]
           /\ IF f.st = "thrown"
              THEN /\ out' = Write(Main, EmbedErrorLog(f) \o Fatal(f.err))
                   /\ Exit(1)
                   /\ UNCHANGED <<pc, io>>
              ELSE /\ io' = [io EXCEPT ![Main] =
                          @ \o (IF f.st = "returned" THEN UpsertCall(f)
                                ELSE EmbedNext(f))]
                   /\ pc' = IF f.st = "returned" THEN "upsert" ELSE "embed"
                   /\ UNCHANGED <<exitCode, out>>
    /\ UNCHANGED <<store, run, prev>>
    /\ UNCHANGED <<env, rl, text, chunks, ids, ck, turn, nlines, prompts>>

\* startChat up to its return: the banner, the interface, the first prompt
\* (lines 185-194); main then returns
StartChat == <<Line("You can now chat with your document.", "")>>

\* PUT .../points (lines 99-109): the store writes the points sent, a point
\* replacing the stored point of the same id
ApplyUpsert(s, points) ==
    {p \in s : \A k \in 1..Len(points) : points[k].id # p.id}
        \cup {points[k] : k \in 1..Len(points)}

\* whether the store applied the request: it did if it replied; a request
\* that failed or timed out may have been applied or not
UpsertEffects(r) == IF Rejected(r) THEN BOOLEAN ELSE {TRUE}

\* upsertToQdrant (lines 99-115) returns or throws; on return startChat
UpsertDone ==
    /\ exitCode = NoExit
    /\ pc = "upsert"
    /\ \E r \in UpsertResponses :
        /\ resp' = Receive(Main, r)
        /\ IF Rejected(r)
           THEN /\ out' = Write(Main, <<Line("Error upserting to Qdrant:",
                                             r.message)>> \o Fatal(r.message))
                /\ Exit(1)
                /\ UNCHANGED <<pc, rl, prompts>>
           ELSE /\ out' = Write(Main, <<Count("embeddings uploaded to Qdrant.",
                                              Len(ids))>> \o StartChat)
                /\ rl' = "open"
                /\ prompts' = prompts + 1
                /\ pc' = "chat"
                /\ UNCHANGED exitCode
        /\ \E applied \in UpsertEffects(r) :
               store' = IF applied
                        THEN ApplyUpsert(store, Last(io[Main]).points)
                        ELSE store
    /\ UNCHANGED <<run, prev>>
    /\ UNCHANGED <<env, text, chunks, ids, ck, em, io, turn, nlines>>


-----------------------------------------------------------------------------
(* searchQdrant and askGemini: lines 119-140 and 143-182. *)

Separator == <<"\n", "\n", "-", "-", "-", "\n", "\n">>

\* result.filter(item => item.payload?.text).map(item => item.payload.text)
RECURSIVE PayloadTexts(_)
PayloadTexts(items) ==
    IF items = <<>> THEN <<>>
    ELSE IF Head(items).has /\ Head(items).text # <<>>
    THEN <<Head(items).text>> \o PayloadTexts(Tail(items))
    ELSE PayloadTexts(Tail(items))

\* a search that joins the text of every returned point
SearchContextUnfiltered(items) ==
    Join([k \in 1..Len(items) |-> items[k].text], Separator)

\* the value searchQdrant returns for a reply that has data.result
SearchContext(items) == Join(PayloadTexts(items), Separator)

\* a search that takes a reply without data.result for an empty result
SearchResumeLenient(r) ==
    IF Rejected(r)
    THEN [st |-> "thrown", context |-> <<>>, err |-> r.message, log |-> <<>>]
    ELSE [st |-> "returned", context |-> SearchContext(r.data.value),
          err |-> "", log |-> <<>>]

\* searchQdrant after its await: [st, context, err, log]
SearchResume(r) ==
    IF Rejected(r)
    THEN [st |-> "thrown", context |-> <<>>, err |-> r.message, log |-> <<>>]
    ELSE IF ~r.data.has
    THEN [st |-> "thrown", context |-> <<>>,
          err |-> "Invalid search response from Qdrant",
          log |-> <<Line("Qdrant search error:", "")>>]
    ELSE [st |-> "returned", context |-> SearchContext(r.data.value),
          err |-> "", log |-> <<>>]

\* line 145
Prompt(query, context) ==
    <<"C", "o", "n", "t", "e", "x", "t", ":", "\n">> \o context
        \o <<"\n", "\n", "Q", "u", "e", "s", "t", "i", "o", "n", ":", " ">>
        \o query \o <<"\n", "A", "n", "s", "w", "e", "r", ":">>

Fallback == "Sorry, I couldn't process your request. Please check your API key and network connection."

GenerateError(message) == <<Line("Detailed Gemini API Error:", message)>>

\* askGemini before its await: the key check of line 147 throws into the
\* catch block, otherwise the request is issued
AskGemini(query, context) ==
    IF ~env["GEMINI_API_KEY"]
    THEN [st |-> "returned", answer |-> Fallback, req |-> <<>>,
          log |-> GenerateError("Gemini API key is not configured")]
    ELSE [st |-> "await", answer |-> "",
          req |-> <<GenerateReq(Prompt(query, context))>>, log |-> <<>>]

\* a catch block that hands back the error's message
GenerateResumeNoFallback(r) ==
    IF Rejected(r)
    THEN [answer |-> r.message, log |-> GenerateError(r.message)]
    ELSE IF ~r.data.has \/ r.data.value = ""
    THEN [answer |-> "", log |-> <<Line("Unexpected Gemini response:", "")>>]
    ELSE [answer |-> r.data.value, log |-> <<>>]

\* askGemini after its await: the answer it returns and what it logs
GenerateResume(r) ==
    IF Rejected(r)
    THEN [answer |-> Fallback, log |-> GenerateError(r.message)]
    ELSE IF ~r.data.has \/ r.data.value = ""
    THEN [answer |-> Fallback,
          log |-> <<Line("Unexpected Gemini response:", "")>>
                  \o GenerateError(
                      "Received empty or unexpected response from Gemini")]
    ELSE [answer |-> r.data.value, log |-> <<>>]

-----------------------------------------------------------------------------
(* startChat's handlers: lines 196-227. *)

NoTurn == [pc |-> "none", line |-> <<>>, query |-> <<>>, vector |-> <<>>,
           context |-> <<>>, answer |-> ""]

\* the close handler: lines 224-227
Close == <<Line("Goodbye!", "")>>

\* a comparison that forgets toLowerCase
IsExitCaseSensitive(query) == query = ExitWord

\* line 198
IsExit(query) == ToLowerCase(query) = ExitWord

\* line 203
IsEmpty(query) == query = <<>>

\* lines 216 and 218, each followed by rl.prompt() of line 221
PrintAnswer(answer) == <<Line("Gemini:", answer)>>
PrintError(message) == <<Line("Error:", message)>>

\* the interface emits a line: the handler runs to its first await or return
LineIn ==
    /\ exitCode = NoExit
    /\ rl = "open"
    /\ nlines < MaxLines
    /\ \E l \in InputLines :
        LET t == nlines + 1
            query == Trim(l)
        IN  /\ nlines' = t
            /\ IF IsExit(query)
               THEN /\ rl' = "closed"
                    /\ out' = Write(t, Close)
                    /\ Exit(0)
                    /\ turn' = [turn EXCEPT ![t] =
                           [NoTurn EXCEPT !.pc = "closed", !.line = l,
                                          !.query = query]]
                    /\ UNCHANGED <<prompts, em, io>>
               ELSE IF IsEmpty(query)
               THEN /\ prompts' = prompts + 1
                    /\ turn' = [turn EXCEPT ![t] =
                           [NoTurn EXCEPT !.pc = "done", !.line = l,
                                          !.query = query]]
                    /\ UNCHANGED <<rl, out, exitCode, em, io>>
               ELSE LET f == EmbedCall(<<query>>) IN
                    /\ out' = Write(t, <<Line("Thinking...", "")>>)
                    /\ em' = [em EXCEPT ![t] = f]
                    /\ io' = [io EXCEPT ![t] = @ \o EmbedNext(f)]
                    /\ turn' = [turn EXCEPT ![t] =
                           [NoTurn EXCEPT !.pc = "embed", !.line = l,
                                          !.query = query]]
                    /\ UNCHANGED <<rl, exitCode, prompts>>
    /\ UNCHANGED <<store, run, prev>>
    /\ UNCHANGED <<env, pc, text, chunks, ids, ck, resp>>

\* the input stream ends: the interface closes, the close handler runs
InputEnd ==
    /\ exitCode = NoExit
    /\ rl = "open"
    /\ rl' = "closed"
    /\ out' = Write(Main, Close)
    /\ Exit(0)
    /\ UNCHANGED <<store, run, prev>>
    /\ UNCHANGED <<env, pc, text, chunks, ids, ck, em, io, turn, nlines,
                   prompts, resp>>

\* a query kept in one variable that every handler assigns
LastQuery(t) == turn[nlines].query

\* line 197: const query, local to the handler's invocation
TurnQuery(t) == turn[t].query

\* line 211 resumes: embedWithGemini([query]) returns or throws; on return
\* searchQdrant(queryEmbedding[0]) issues its request
TurnEmbedDone(t) ==
    /\ exitCode = NoExit
    /\ turn[t].pc = "embed"
    /\ \E r \in EmbedResponses :
        /\ resp' = Receive(t, r)
        /\ LET f == EmbedResume(em[t], r) IN
           /\ em' = [em EXCEPT ![t] = f]
           /\ IF f.st = "thrown"
              THEN /\ out' = Write(t, EmbedErrorLog(f) \o PrintError(f.err))
                   /\ prompts' = prompts + 1
                   /\ turn' = [turn EXCEPT ![t].pc = "done"]
                   /\ UNCHANGED io
              ELSE IF f.st = "await"
              THEN /\ io' = [io EXCEPT ![t] = @ \o EmbedNext(f)]
                   /\ UNCHANGED <<out, prompts, turn>>
              ELSE /\ io' = Issue(t, SearchReq(f.embeddings[1], DefaultTopK))
                   /\ turn' = [turn EXCEPT ![t].pc = "search",
                                           ![t].vector = f.embeddings[1]]
                   /\ UNCHANGED <<out, prompts>>
    /\ UNCHANGED <<store, run, prev>>
    /\ UNCHANGED <<env, pc, exitCode, rl, text, chunks, ids, ck, nlines>>

\* line 212 resumes: searchQdrant returns or throws; on return askGemini
\* runs to its await
TurnSearchDone(t) ==
    /\ exitCode = NoExit
    /\ turn[t].pc = "search"
    /\ \E r \in SearchResponses :
        /\ resp' = Receive(t, r)
        /\ LET s == SearchResume(r)
               g == AskGemini(TurnQuery(t), s.context)
           IN  IF s.st = "thrown"
               THEN /\ out' = Write(t, s.log \o PrintError(s.err))
                    /\ prompts' = prompts + 1
                    /\ turn' = [turn EXCEPT ![t].pc = "done"]
                    /\ UNCHANGED io
               ELSE IF g.st = "returned"
               THEN /\ out' = Write(t, g.log \o PrintAnswer(g.answer))
                    /\ prompts' = prompts + 1
                    /\ turn' = [turn EXCEPT ![t].pc = "done",
                                            ![t].context = s.context,
                                            ![t].answer = g.answer]
                    /\ UNCHANGED io
               ELSE /\ io' = [io EXCEPT ![t] = @ \o g.req]
                    /\ turn' = [turn EXCEPT ![t].pc = "generate",
                                            ![t].context = s.context]
                    /\ UNCHANGED <<out, prompts>>
    /\ UNCHANGED <<store, run, prev>>
    /\ UNCHANGED <<env, pc, exitCode, rl, text, chunks, ids, ck, em, nlines>>

\* line 213 resumes: askGemini returns the answer or the fallback, the
\* handler prints it and prompts
TurnGenerateDone(t) ==
    /\ exitCode = NoExit
    /\ turn[t].pc = "generate"
    /\ \E r \in GenerateResponses :
        /\ resp' = Receive(t, r)
        /\ LET g == GenerateResume(r) IN
           /\ out' = Write(t, g.log \o PrintAnswer(g.answer))
           /\ prompts' = prompts + 1
           /\ turn' = [turn EXCEPT ![t].pc = "done", ![t].answer = g.answer]
    /\ UNCHANGED <<store, run, prev>>
    /\ UNCHANGED <<env, pc, exitCode, rl, text, chunks, ids, ck, em, io,
                   nlines>>

-----------------------------------------------------------------------------
(* The program. *)

NoPrev == [text |-> <<>>, io |-> <<>>, resp |-> <<>>, store |-> {}]

Init ==
    /\ env \in [ConfigKeys -> BOOLEAN]
    /\ pc = "config"
    /\ exitCode = NoExit
    /\ rl = "none"
    /\ text = <<>>
    /\ chunks = <<>>
    /\ ids = <<>>
    /\ ck = NoChunkCall
    /\ em = [c \in Callers |-> NoEmbedCall]
    /\ io = [c \in Callers |-> <<>>]
    /\ out = [c \in Callers |-> <<>>]
    /\ turn = [t \in Turns |-> NoTurn]
    /\ nlines = 0
    /\ prompts = 0
    /\ resp = [c \in Callers |-> <<>>]
    /\ store \in InitialStores
    /\ run = 1
    /\ prev = NoPrev

\* startup: the module's top level and main() up to startChat's return
NextStartup ==
    \/ ConfigCheck
    \/ LivenessDone
    \/ ReadFileDone
    \/ ChunkLoop
    \/ ChunkReturn
    \/ Chunked
    \/ CreateDone
    \/ EmbedDone
    \/ UpsertDone

\* the interactive phase: the interface's events and the handlers' awaits
NextChat ==
    \/ LineIn
    \/ InputEnd
    \/ \E t \in Turns : TurnEmbedDone(t)
    \/ \E t \in Turns : TurnSearchDone(t)
    \/ \E t \in Turns : TurnGenerateDone(t)

Next == NextStartup \/ NextChat

Spec == Init /\ [][Next]_vars

\* the startup phase alone
SpecStartup == Init /\ [][NextStartup]_vars

\* the session is over and the program is started again: a new process,
\* the same environment, the collection as the first execution left it
Restart ==
    /\ run = 1
    /\ pc = "chat"
    /\ run' = 2
    /\ prev' = [text |-> text, io |-> io[Main], resp |-> resp[Main],
                store |-> store]
    /\ pc' = "config"
    /\ exitCode' = NoExit
    /\ rl' = "none"
    /\ text' = <<>>
    /\ chunks' = <<>>
    /\ ids' = <<>>
    /\ ck' = NoChunkCall
    /\ em' = [c \in Callers |-> NoEmbedCall]
    /\ io' = [c \in Callers |-> <<>>]
    /\ out' = [c \in Callers |-> <<>>]
    /\ turn' = [t \in Turns |-> NoTurn]
    /\ nlines' = 0
    /\ prompts' = 0
    /\ resp' = [c \in Callers |-> <<>>]
    /\ UNCHANGED <<env, store>>

\* startup, run twice
NextTwice == NextStartup \/ Restart

SpecTwice == Init /\ [][NextTwice]_vars

\* The state in which startup leaves the program for a document of one
\* character, a collection newly created and the embedding <<1, 0>>.
ChatEntered ==
    LET doc == DocOfLen(1)
        v == <<1, 0>>
    IN  /\ env = [k \in ConfigKeys |-> TRUE]
        /\ pc = "chat"
        /\ exitCode = NoExit
        /\ rl = "open"
        /\ text = doc
        /\ chunks = <<doc>>
        /\ ids = <<1>>
        /\ ck = NoChunkCall
        /\ em = [c \in Callers |->
                   IF c = Main
                   THEN [texts |-> <<doc>>, k |-> 1, embeddings |-> <<v>>,
                         st |-> "returned", err |-> ""]
                   ELSE NoEmbedCall]
        /\ io = [c \in Callers |->
                   IF c = Main
                   THEN <<ListModelsReq, ReadFileReq, CreateReq(DefaultDim),
                          EmbedReq(doc),
                          UpsertReq(<<[id |-> 1, vector |-> v,
                                       text |-> doc]>>)>>
                   ELSE <<>>]
        /\ out = [c \in Callers |->
                   IF c = Main
                   THEN <<Line("Testing Gemini API connection...", ""),
                          Count("Processing chunks", 1),
                          Line("Collection created or already exists.", ""),
                          Count("embeddings uploaded to Qdrant.", 1)>>
                        \o StartChat
                   ELSE <<>>]
        /\ turn = [t \in Turns |-> NoTurn]
        /\ nlines = 0
        /\ prompts = 1
        /\ resp = [c \in Callers |->
                   IF c = Main
                   THEN <<Reply(Absent), Reply(Present(doc)), Reply(Absent),
                          Reply(Present(v)), Reply(Absent)>>
                   ELSE <<>>]
        /\ store = {[id |-> 1, vector |-> v, text |-> doc]}
        /\ run = 1
        /\ prev = NoPrev

\* the interactive phase alone, from that state
InitChat == ChatEntered

SpecChat == InitChat /\ [][NextChat]_vars

\* caller c awaits a request that carries a timeout: axios's timer rejects
\* the promise if nothing else settles it
TimerRuns(c) ==
    /\ Len(io[c]) > Len(resp[c])
    /\ Last(io[c]).timeout > NoTimeout

\* turn t's pending await resumes
TurnResumes(t) == TurnEmbedDone(t) \/ TurnSearchDone(t) \/ TurnGenerateDone(t)

\* The interactive phase with the event loop's guarantee: an await whose
\* request carries a timeout resumes. Nothing obliges the user to enter a
\* line or the providers to answer.
SpecChatFair ==
    /\ InitChat
    /\ [][NextChat]_vars
    /\ \A t \in Turns : WF_vars(TimerRuns(t) /\ TurnResumes(t))

-----------------------------------------------------------------------------
(* chunkText on its own: any small text, any size, also sizes <= 0. *)

Texts == UNION {[1..n -> {"a", "b"}] : n \in 0..MaxTextLen}
Sizes == (0 - 2)..MaxSize

InitChunk ==
    /\ env = [k \in ConfigKeys |-> TRUE]
    /\ pc = "chunkText"
    /\ exitCode = NoExit
    /\ rl = "none"
    /\ text = <<>>
    /\ chunks = <<>>
    /\ ids = <<>>
    /\ \E t \in Texts, size \in Sizes : ck = ChunkCall(t, size)
    /\ em = [c \in Callers |-> NoEmbedCall]
    /\ io = [c \in Callers |-> <<>>]
    /\ out = [c \in Callers |-> <<>>]
    /\ turn = [t \in Turns |-> NoTurn]
    /\ nlines = 0
    /\ prompts = 0
    /\ resp = [c \in Callers |-> <<>>]
    /\ store = {}
    /\ run = 1
    /\ prev = NoPrev

NextChunk == ChunkLoop \/ ChunkReturn

SpecChunk == InitChunk /\ [][NextChunk]_vars


-----------------------------------------------------------------------------
(* Properties. *)

\* the turns whose embed, search or generate call has not returned
InFlight == {t \in Turns : turn[t].pc \in {"embed", "search", "generate"}}

\* a reply that carries the data the caller reads
Usable(r) == r.kind = "reply" /\ r.data.has

\* C1: at most one query turn is in progress at any time: a line received
\* while an earlier query is still being answered starts no second turn.
C1_OneTurnAtATime == Cardinality(InFlight) <= 1

\* C2: a generation call that fails (no reply, or a reply without the answer
\* path) makes the turn print the fallback string as its answer, not an
\* error; the step leaves the process running and the interface open, and
\* prompts again.
C2_GenerationFailureFallsBack ==
    [][\A t \in Turns :
          (/\ turn[t].pc = "generate"
           /\ turn'[t].pc # "generate"
           /\ ~Usable(Last(resp'[t])))
          => /\ turn'[t].pc = "done"
             /\ turn'[t].answer = Fallback
             /\ Last(out'[t]) = Line("Gemini:", Fallback)
             /\ \A k \in DOMAIN out'[t] : out'[t][k].s # "Error:"
             /\ exitCode' = NoExit
             /\ rl' = "open"
             /\ prompts' = prompts + 1]_vars

C2_FallbackPrinted ==
    \E t \in Turns :
        /\ turn[t].pc = "done"
        /\ Len(resp[t]) = 3
        /\ resp[t][3].kind = "failure"
        /\ Last(out[t]) = Line("Gemini:", Fallback)
        /\ exitCode = NoExit
        /\ rl = "open"
        /\ nlines < MaxLines

\* C3: an embedding or search call of a turn that fails (no reply, or a reply
\* without the vector or the result field) ends the turn with the error
\* reported; no generation request is issued for the turn, the process keeps
\* running with the interface open, and the handler prompts again.
C3_RetrievalFailureReported ==
    [][\A t \in Turns :
          (/\ turn[t].pc \in {"embed", "search"}
           /\ resp'[t] # resp[t]
           /\ ~Usable(Last(resp'[t])))
          => /\ turn'[t].pc = "done"
             /\ Last(out'[t]).s = "Error:"
             /\ Last(out'[t]).a =
                    (IF Last(resp'[t]).kind = "failure"
                     THEN Last(resp'[t]).message
                     ELSE IF turn[t].pc = "embed"
                     THEN "Invalid response from Gemini API"
                     ELSE "Invalid search response from Qdrant")
             /\ io'[t] = io[t]
             /\ \A k \in DOMAIN io'[t] : io'[t][k].op # "generate"
             /\ exitCode' = NoExit
             /\ rl' = "open"
             /\ prompts' = prompts + 1]_vars

C3_SearchErrorReported ==
    \E t \in Turns :
        /\ turn[t].pc = "done"
        /\ Len(resp[t]) = 2
        /\ resp[t][2].kind = "reply"
        /\ ~resp[t][2].data.has
        /\ Last(out[t]) = Line("Error:", "Invalid search response from Qdrant")
        /\ exitCode = NoExit
        /\ rl = "open"

\* the startup responses that are failures: a rejected call other than the
\* collection's already-exists, or an embedding reply without the vector
StartupFailure(step, r) ==
    \/ r.kind = "failure" /\ ~(step = "createCollection" /\ r.status = 409)
    \/ step = "embed" /\ r.kind = "reply" /\ ~r.data.has

FailureMessage(r) ==
    IF r.kind = "failure" THEN r.message
    ELSE "Invalid response from Gemini API"

\* C4: a failure of any startup step is logged with its message and ends the
\* process with a non-zero exit code, the interactive loop not entered; an
\* exited process takes no further step.
C4_StartupFailureFatal ==
    [][/\ exitCode = NoExit
       /\ (resp'[Main] # resp[Main] /\ StartupFailure(pc, Last(resp'[Main])))
          => /\ exitCode' \notin {NoExit, 0}
             /\ rl' = "none"
             /\ pc' # "chat"
             /\ Last(out'[Main]).s \in {"Fatal error:", "Unhandled rejection:"}
             /\ Last(out'[Main]).a \in
                    {FailureMessage(Last(resp'[Main])),
                     "Gemini API connection failed: "
                         \o FailureMessage(Last(resp'[Main]))}]_vars

C4_UpsertFailedExit ==
    /\ pc = "upsert"
    /\ Len(resp[Main]) = Len(io[Main])
    /\ Last(resp[Main]).kind = "failure"
    /\ exitCode = 1
    /\ rl = "none"

\* the order of main's requests for n chunks
ExpectedOps(n) ==
    <<"listModels", "readFile", "createCollection">>
        \o [k \in 1..n |-> "embed"] \o <<"upsert">>

\* the response with which a startup step succeeds
Succeeded(q, r) ==
    \/ r.kind = "reply" /\ (q.op = "embed" => r.data.has)
    \/ q.op = "createCollection" /\ r.kind = "failure" /\ r.status = 409

\* C5: main's requests follow the order liveness check, file read,
\* collection creation, one embedding per chunk, upsert; each is issued only
\* after every earlier one succeeded; chunkText runs between the file read
\* and the collection's creation; the interface is opened only after the
\* upsert succeeded.
C5_StartupOrder ==
    LET q == io[Main]
        r == resp[Main]
    IN  /\ Len(q) <= Len(r) + 1
        /\ Len(q) <= Len(chunks) + 4
        /\ \A k \in 1..Len(q) : q[k].op = ExpectedOps(Len(chunks))[k]
        /\ \A k \in 1..(Len(q) - 1) : k <= Len(r) /\ Succeeded(q[k], r[k])
        /\ ck.pc # "none" => Len(q) = 2 /\ Len(r) = 2
        /\ rl # "none" =>
              /\ Len(q) = Len(r)
              /\ Last(q).op = "upsert"
              /\ Succeeded(Last(q), Last(r))

C5_LoopEnteredAfterUpsert == ChatEntered

\* C6: for a positive size, chunkText returns chunks whose concatenation is
\* the text, every chunk but the last of length size, the last of length
\* len mod size (size when that is 0), none empty; none at all for "".
C6_ChunksCoverText ==
    (ck.pc = "returned" /\ ck.size > 0) =>
        LET n == Len(ck.chunks)
            len == Len(ck.text)
        IN  /\ Concat(ck.chunks) = ck.text
            /\ \A k \in 1..(n - 1) : Len(ck.chunks[k]) = ck.size
            /\ n > 0 => Len(ck.chunks[n]) =
                  (IF len % ck.size = 0 THEN ck.size ELSE len % ck.size)
            /\ \A k \in 1..n : ck.chunks[k] # <<>>
            /\ len = 0 => n = 0

C6_ShortLastChunk ==
    /\ ck.pc = "returned"
    /\ ck.size = 3
    /\ Len(ck.text) = 4
    /\ Len(ck.chunks) = 2
    /\ Len(ck.chunks[2]) = 1

\* C7: chunkText given a non-empty text and a size <= 0 is rejected: it
\* neither iterates nor returns chunks.
C7_InvalidSizeRejected ==
    (ck.size <= 0 /\ ck.text # <<>> /\ ck.pc # "none") =>
        /\ ck.pc # "returned"
        /\ ck.chunks = <<>>
        /\ ck.i = 0

\* the lines that are "exit" in some letter case once trimmed
ExitLines == {<<"e", "x", "i", "t">>, <<" ", "E", "x", "I", "T", "\t">>}

\* C8: a line that is "exit" in any letter case once trimmed ends the
\* process with exit code 0, and its handler issues no request.
C8_ExitLine ==
    [][(nlines' = nlines + 1 /\ turn'[nlines'].line \in ExitLines)
          => /\ exitCode' = 0
             /\ rl' = "closed"
             /\ io' = io]_vars

C8_UpperCaseExit ==
    \E t \in Turns :
        /\ turn[t].line = <<" ", "E", "x", "I", "T", "\t">>
        /\ exitCode = 0
        /\ io[t] = <<>>

\* the lines that are empty or whitespace only
BlankLines == {<<>>, <<" ", "\t">>}

\* C9: an empty or whitespace-only line only prompts again: its handler
\* issues no request, prints nothing, and leaves the session running.
C9_BlankLine ==
    [][(nlines' = nlines + 1 /\ turn'[nlines'].line \in BlankLines)
          => /\ io' = io
             /\ out' = out
             /\ prompts' = prompts + 1
             /\ exitCode' = NoExit
             /\ rl' = "open"
             /\ turn'[nlines'].pc = "done"]_vars

C9_WhitespaceReprompted ==
    \E t \in Turns :
        /\ turn[t].line = <<" ", "\t">>
        /\ turn[t].pc = "done"
        /\ io[t] = <<>>
        /\ out[t] = <<>>
        /\ exitCode = NoExit

\* the positions of caller c's embedding requests among its requests
EmbedPositions(c) == {k \in 1..Len(io[c]) : io[c][k].op = "embed"}

\* C10: a caller has at most one request outstanding, and a call of
\* embedWithGemini that returns has issued exactly one request per text, in
\* the order of the texts, and returns as i-th vector the vector of the
\* reply to the i-th text's request.
C10_OneRequestPerText ==
    \A c \in Callers :
        /\ Len(io[c]) <= Len(resp[c]) + 1
        /\ em[c].st = "returned" =>
              LET f == em[c]
                  n == Len(f.texts)
                  E == EmbedPositions(c)
                  first == IF c = Main THEN 4 ELSE 1
              IN  /\ Len(f.embeddings) = n
                  /\ E = first..(first + n - 1)
                  /\ \A i \in 1..n :
                        /\ io[c][first + i - 1].text = f.texts[i]
                        /\ Usable(resp[c][first + i - 1])
                        /\ f.embeddings[i] = resp[c][first + i - 1].data.value

C10_ThreeChunksEmbedded ==
    /\ em[Main].st = "returned"
    /\ Len(em[Main].texts) = 3
    /\ em[Main].embeddings[1] # em[Main].embeddings[2]
    /\ em[Main].embeddings[2] = em[Main].embeddings[3]

\* C11: once the reply to one text's embedding request is a failure or lacks
\* the vector, the call has thrown with the failure's message: that request
\* is the caller's last (none for the remaining texts, none again for the
\* failed one, and no upsert or search that would use vectors).
C11_EmbedFailureAbortsBatch ==
    \A c \in Callers :
        \A k \in EmbedPositions(c) :
            (k <= Len(resp[c]) /\ ~Usable(resp[c][k])) =>
                /\ em[c].st = "thrown"
                /\ em[c].err = FailureMessage(resp[c][k])
                /\ k = Len(io[c])
                /\ Cardinality(EmbedPositions(c)) = em[c].k
                /\ em[c].k <= Len(em[c].texts)
                /\ \A i \in 1..em[c].k :
                       io[c][k - em[c].k + i].text = em[c].texts[i]

C11_SecondOfThreeFailed ==
    /\ em[Main].st = "thrown"
    /\ Len(em[Main].texts) = 3
    /\ em[Main].k = 2
    /\ Len(em[Main].embeddings) = 1
    /\ Len(io[Main]) = 5
    /\ exitCode = 1

\* the lines caller c wrote in the step
Written(c) == SubSeq(out'[c], Len(out[c]) + 1, Len(out'[c]))

\* C12: createCollection treats a reply, and the failure with status 409
\* (the collection exists already, as on a second creation with the same
\* name and dimension), as success: no error line is written, the process
\* goes on to its next request; any other failure is logged and rethrown,
\* which ends the process with exit code 1.
C12_CreateIdempotent ==
    [][(exitCode = NoExit /\ pc = "createCollection"
           /\ resp'[Main] # resp[Main]) =>
          LET r == Last(resp'[Main]) IN
          IF r.kind = "reply" \/ r.status = 409
          THEN /\ exitCode' = NoExit
               /\ pc' \in {"embed", "upsert"}
               /\ Len(io'[Main]) = Len(io[Main]) + 1
               /\ Last(io'[Main]).op = pc'
               /\ \A k \in 1..Len(Written(Main)) :
                      Written(Main)[k].s \in
                          {"Collection created or already exists.",
                           "Collection already exists"}
          ELSE /\ exitCode' = 1
               /\ pc' = pc
               /\ io' = io
               /\ Written(Main) =
                      <<[s |-> "Error creating collection:", a |-> r.message,
                         n |-> 0],
                        [s |-> "Fatal error:", a |-> r.message, n |-> 0]>>
      ]_vars

C12_ExistingCollectionIndexed ==
    /\ pc = "chat"
    /\ rl = "open"
    /\ Len(resp[Main]) >= 3
    /\ resp[Main][3].kind = "failure"
    /\ resp[Main][3].status = 409
    /\ exitCode = NoExit

\* the i-th chunk of the document, by its position alone
ChunkAt(i) ==
    Slice(text, (i - 1) * DefaultChunkSize, i * DefaultChunkSize)

UpsertPositions == {k \in 1..Len(io[Main]) : io[Main][k].op = "upsert"}

\* C13: main issues at most one upsert request, and exactly one once the
\* upsert step is reached; it carries one point per chunk, the i-th with id
\* i, with the vector of the reply to the i-th chunk's embedding request,
\* and with the i-th chunk as its text.
C13_OneBulkUpsert ==
    /\ Cardinality(UpsertPositions) <= 1
    /\ pc \in {"upsert", "chat"} => Cardinality(UpsertPositions) = 1
    /\ \A k \in UpsertPositions :
           LET p == io[Main][k].points
               n == Len(chunks) IN
           /\ k = 3 + n + 1
           /\ Len(p) = n
           /\ n * DefaultChunkSize >= Len(text)
           /\ (n - 1) * DefaultChunkSize < Len(text) \/ n = 0
           /\ \A i \in 1..n :
                  /\ p[i].id = i
                  /\ p[i].text = ChunkAt(i)
                  /\ io[Main][3 + i].op = "embed"
                  /\ io[Main][3 + i].text = ChunkAt(i)
                  /\ resp[Main][3 + i].kind = "reply"
                  /\ resp[Main][3 + i].data.has
                  /\ p[i].vector = resp[Main][3 + i].data.value

C13_ThreePointsUpserted ==
    /\ pc = "chat"
    /\ Len(chunks) = 3
    /\ Len(Last(io[Main]).points) = 3
    /\ Last(io[Main]).points[3].id = 3
    /\ Last(io[Main]).points[1].vector # Last(io[Main]).points[3].vector

\* the texts of the points that satisfy keep, joined by "\n\n---\n\n"
JoinedTexts(items, keep(_)) ==
    LET kept == SelectSeq(items, keep) IN
    Join([k \in 1..Len(kept) |-> kept[k].text],
         <<"\n", "\n", "-", "-", "-", "\n", "\n">>)

HasPayloadText(item) == item.has
HasNonEmptyText(item) == item.has /\ item.text # <<>>

\* the turns whose search was answered with a result list
Searched == {t \in Turns : /\ Len(resp[t]) >= 2
                           /\ resp[t][2].kind = "reply"
                           /\ resp[t][2].data.has}

\* C14 as stated: the context is the join of the payload texts of all the
\* returned points that carry one, an empty text included.
C14_AllPayloadTextsJoined ==
    \A t \in Searched :
        turn[t].context = JoinedTexts(resp[t][2].data.value, HasPayloadText)

\* C14: the search asks for at most 3 points; its context is the join, in
\* the provider's order and with the separator "\n\n---\n\n", of the payload
\* texts of the returned points that have a non-empty payload text; an
\* empty result list gives the empty context; in every case the turn goes
\* on to the generation request built from that context, and prints no
\* error.
C14_SearchContext ==
    \A t \in Searched :
        LET items == resp[t][2].data.value IN
        /\ io[t][2].op = "search"
        /\ io[t][2].limit = 3
        /\ Len(items) <= io[t][2].limit
        /\ turn[t].context = JoinedTexts(items, HasNonEmptyText)
        /\ items = <<>> => turn[t].context = <<>>
        /\ Len(io[t]) = 3
        /\ io[t][3].op = "generate"
        /\ io[t][3].text = Prompt(turn[t].query, turn[t].context)
        /\ \A k \in 1..Len(out[t]) : out[t][k].s # "Error:"

C14_EmptyTextSkipped ==
    \E t \in Searched :
        /\ \E k \in 1..Len(resp[t][2].data.value) :
               resp[t][2].data.value[k] = [has |-> TRUE, text |-> <<>>]
        /\ turn[t].context =
               <<"a", "b", "\n", "\n", "-", "-", "-", "\n", "\n", "c">>
        /\ turn[t].pc = "done"

\* C15: when one of the four configuration values is absent the process
\* issues no request (no network call, no file read), never opens the
\* interface, and stays at the configuration check until it ends there with
\* exit code 1 and the error's message.
C15_MissingConfigFailsFast ==
    (\E k \in {"GEMINI_API_KEY", "QDRANT_API_KEY", "QDRANT_HOST",
                "COLLECTION_NAME"} : ~env[k]) =>
        /\ \A c \in Callers : io[c] = <<>> /\ resp[c] = <<>>
        /\ text = <<>>
        /\ rl = "none"
        /\ pc = "config"
        /\ nlines = 0
        /\ \/ exitCode = NoExit /\ out[Main] = <<>>
           \/ /\ exitCode = 1
              /\ out[Main] = <<[s |-> "Uncaught Error:",
                                a |-> "Missing required environment variables",
                                n |-> 0]>>

C15_HostMissingExit ==
    /\ ~env["QDRANT_HOST"]
    /\ env["GEMINI_API_KEY"] /\ env["QDRANT_API_KEY"] /\ env["COLLECTION_NAME"]
    /\ exitCode = 1
    /\ io[Main] = <<>>

\* an await of an embedding or generation request, both sent with a
\* timeout, resumes unless the process exits first
TimedCallsReturn ==
    \A t \in Turns :
        /\ turn[t].pc = "embed" ~> (turn[t].pc # "embed" \/ exitCode # NoExit)
        /\ turn[t].pc = "generate" ~> (turn[t].pc = "done" \/ exitCode # NoExit)

\* C16: every started query turn eventually finishes (its answer or error
\* is printed and the prompt shown again) unless the process exits first,
\* even when a provider never responds.
C16_EveryTurnFinishes ==
    \A t \in Turns :
        turn[t].pc \in {"embed", "search", "generate"}
            ~> (turn[t].pc = "done" \/ exitCode # NoExit)

\* the answer a turn prints for the reply to its generation request
AnswerOf(r) ==
    IF r.kind = "reply" /\ r.data.has /\ r.data.value # ""
    THEN r.data.value
    ELSE "Sorry, I couldn't process your request. Please check your API key and network connection."

\* C17: under every interleaving of the line handlers a turn's requests are
\* embed, search, generate in this order, each issued after the reply to
\* the one before; the embedding is asked for the turn's own query, the
\* search carries the vector of the turn's own embedding reply, the
\* generation prompt is built from the turn's own query and the context of
\* the turn's own search reply, and the answer printed is that of the
\* turn's own generation reply.
C17_TurnLocalData ==
    \A t \in Turns :
        /\ Len(io[t]) <= 3
        /\ Len(io[t]) <= Len(resp[t]) + 1
        /\ \A k \in 1..Len(io[t]) :
               io[t][k].op = <<"embed", "search", "generate">>[k]
        /\ Len(io[t]) >= 1 =>
               /\ io[t][1].text = turn[t].query
               /\ turn[t].query = Trim(turn[t].line)
        /\ Len(io[t]) >= 2 =>
               /\ Usable(resp[t][1])
               /\ io[t][2].vector = resp[t][1].data.value
        /\ Len(io[t]) >= 3 =>
               /\ Usable(resp[t][2])
               /\ io[t][3].text =
                      Prompt(turn[t].query,
                             JoinedTexts(resp[t][2].data.value,
                                         HasNonEmptyText))
        /\ \A k \in 1..Len(out[t]) :
               out[t][k].s = "Gemini:" =>
                   /\ Len(resp[t]) = 3
                   /\ out[t][k].a = AnswerOf(resp[t][3])

C17_TwoTurnsInterleaved ==
    /\ turn[1].pc = "generate"
    /\ turn[2].pc = "done"
    /\ Len(resp[2]) = 3
    /\ turn[1].query # turn[2].query
    /\ io[1][2].vector # io[2][2].vector
    /\ io[1][3].text # io[2][3].text

\* the embedding provider is deterministic over the two executions: the
\* same text is answered with the same reply
SameVectors ==
    \A i \in 1..Len(prev.io) :
        \A j \in 1..Len(io[Main]) :
            (/\ prev.io[i].op = "embed"
             /\ io[Main][j].op = "embed"
             /\ prev.io[i].text = io[Main][j].text)
                => prev.resp[i] = resp[Main][j]

Reindexed == run = 2 /\ pc = "chat" /\ text = prev.text /\ SameVectors

\* C18: when the second execution has indexed the same document as the
\* first, with the same embeddings, the collection holds exactly the points
\* it held after the first; both executions sent the ids 1..n, whatever the
\* collection held before.
C18_ReindexIdempotent ==
    Reindexed =>
        /\ store = prev.store
        /\ Last(io[Main]).points = Last(prev.io).points
        /\ \A k \in 1..Len(Last(io[Main]).points) :
               /\ Last(io[Main]).points[k].id = k
               /\ Last(io[Main]).points[k] \in store
        /\ Cardinality({p \in store : p.id \in 1..Len(chunks)}) = Len(chunks)

C18_ThreeChunksReindexed ==
    /\ Reindexed
    /\ Len(chunks) = 3
    /\ Cardinality(store) = 4
    /\ \E p \in store : p.id = 9

\* C19: the step that closes the interface (the exit keyword or the end of
\* input) ends the process with exit code 0, whatever turns are in flight;
\* it issues no request and writes only the farewell; once the interface is
\* closed no request is issued, nothing is printed, no await resumes and no
\* turn moves.
C19_CloseIsFinal ==
    [][/\ rl' = "closed" => exitCode' = 0
       /\ (rl # "closed" /\ rl' = "closed") =>
              /\ io' = io
              /\ resp' = resp
              /\ \E c \in Callers :
                     out' = [out EXCEPT ![c] =
                                @ \o <<[s |-> "Goodbye!", a |-> "", n |-> 0]>>]
              /\ \A t \in InFlight : turn'[t] = turn[t]
       /\ rl = "closed" =>
              /\ io' = io
              /\ out' = out
              /\ resp' = resp
              /\ turn' = turn
              /\ prompts' = prompts
      ]_vars

C19_ClosedWithTurnInFlight ==
    /\ rl = "closed"
    /\ exitCode = 0
    /\ \A t \in Turns : turn[t].pc # "closed"
    /\ \E t \in Turns : turn[t].pc = "search"
    /\ \E t \in Turns : turn[t].pc = "generate"

====
